---- MODULE Spec2Model ----
(***************************************************************************)
(* Model of the daily-report e-mail triage pipeline (Modulo_C_D):          *)
(* main.process_emails with its collaborators GmailClient, PDFReader and   *)
(* ExcelManager.  The remote mailbox, the label catalog, the scratch       *)
(* folder and the ledger workbook are the environment state; the local     *)
(* variables of process_emails and its position are the program state.     *)
(***************************************************************************)
EXTENDS Integers, Sequences, FiniteSets, TLC

\* ------------------------------------------------------------------ bounds
MaxMsgs == 2        \* messages in the mailbox
MaxAtts == 2        \* attachments in the mailbox, over all messages
MaxRuns == 2        \* invocations of process_emails
MaxFaults == 1      \* collaborator failures over a behaviour

\* --------------------------------------------------------------- constants
MaxResults == 50    \* main.py:70  max_results=50

None == <<>>                \* Python None where a str is expected (falsy, like "")
NoId == "None"              \* attachmentId missing from the part body
PdfMime == "application/pdf"
CurrentDate == "2024-01-01" \* datetime.now().strftime("%Y-%m-%d")

\* ------------------------------------------------------------------- texts
Digits == {"0", "1", "2", "3", "4", "5", "6", "7", "8", "9"}
Letters == {"a", "C", "P", "F", "E", "_"}

\* \d of the re module
IsDigit(c) == c \in Digits

\* \w of the re module
IsWord(c) == c \in Digits \cup Letters

\* \b : the position between text[p-1] and text[p] is a word boundary
WordBoundary(text, p) ==
    LET before == p > 1 /\ p - 1 <= Len(text) /\ IsWord(text[p - 1])
        after  == p >= 1 /\ p <= Len(text) /\ IsWord(text[p])
    IN  before # after

\* as cpf_pattern, without the two \b anchors
cpf_pattern_unanchored == << "d", "d", "d", "?.", "d", "d", "d", "?.",
                             "d", "d", "d", "?-", "d", "d" >>

\* cpf_pattern  \b\d{3}\.?\d{3}\.?\d{3}-?\d{2}\b   as a token sequence
cpf_pattern == << "b", "d", "d", "d", "?.", "d", "d", "d", "?.",
                  "d", "d", "d", "?-", "d", "d", "b" >>

\* cep_pattern  \b\d{5}-?\d{3}\b   as a token sequence
cep_pattern == << "b", "d", "d", "d", "d", "d", "?-", "d", "d", "d", "b" >>

\* Position reached after matching tokens k.. of pat from position p of text,
\* or 0 when the pattern does not match there.  An optional separator is
\* never a digit, so taking it whenever it is there is the only way to match.
RECURSIVE MatchFrom(_, _, _, _)
MatchFrom(text, p, pat, k) ==
    IF k > Len(pat) THEN p
    ELSE LET tok == pat[k] IN
         IF tok = "b"
         THEN IF WordBoundary(text, p) THEN MatchFrom(text, p, pat, k + 1) ELSE 0
         ELSE IF tok = "d"
         THEN IF p <= Len(text) /\ IsDigit(text[p])
              THEN MatchFrom(text, p + 1, pat, k + 1) ELSE 0
         ELSE IF tok = "?."
         THEN IF p <= Len(text) /\ text[p] = "."
              THEN MatchFrom(text, p + 1, pat, k + 1)
              ELSE MatchFrom(text, p, pat, k + 1)
         ELSE IF p <= Len(text) /\ text[p] = "-"
              THEN MatchFrom(text, p + 1, pat, k + 1)
              ELSE MatchFrom(text, p, pat, k + 1)

\* re.search(pat, text).group(0) if re.search(pat, text) else None
ReSearch(pat, text) ==
    LET starts == {p \in 1..(Len(text) + 1) : MatchFrom(text, p, pat, 1) # 0}
    IN  IF starts = {} THEN None
        ELSE LET s == CHOOSE p \in starts : \A q \in starts : p <= q
             IN  SubSeq(text, s, MatchFrom(text, s, pat, 1) - 1)

extract_cpf_cep(text) ==
    [cpf |-> ReSearch(cpf_pattern, text), cep |-> ReSearch(cep_pattern, text)]

\* ------------------------------------------------------- mailbox contents
\* The texts a PDF of the mailbox can hold, as character sequences.
TextBoth == << "C", "P", "F", " ", "1", "2", "3", ".", "4", "5", "6", ".", "7", "8", "9",
               "-", "0", "9", " ", "C", "E", "P", " ", "1", "2", "3", "4", "5", "-",
               "6", "7", "8" >>
TextCpfOnly == << "1", "2", "3", "4", "5", "6", "7", "8", "9", "0", "9" >>
TextCepOnly == << "C", "E", "P", " ", "5", "4", "3", "2", "1", "0", "0", "0" >>
TextNeither == << "a", " ", "1", "2", "-", "3" >>
Texts == << TextBoth, TextCpfOnly, TextCepOnly, TextNeither >>
TextIds == 1..4

FileNames == {"a.pdf", "b.pdf"}

\* attachment_data of _process_message_parts, with the remote content of the
\* attachment (text) that download_attachment would fetch
PdfAttachments ==
    [filename : FileNames, mime_type : {PdfMime}, attachment_id : {"aid"}, text : TextIds]
    \cup [filename : FileNames, mime_type : {PdfMime}, attachment_id : {NoId}, text : {1}]
OtherAttachments ==
    [filename : {"notes.txt"}, mime_type : {"text/plain"}, attachment_id : {"aid"}, text : {1}]
Attachments == PdfAttachments \cup OtherAttachments

\* what extract_cpf_cep yields on each text of the mailbox
ExtractedOf == [k \in TextIds |-> extract_cpf_cep(Texts[k])]

SeqsUpTo(S, n) == UNION {[1..k -> S] : k \in 0..n}

\* ------------------------------------------------------------------- state
VARIABLES
    mailbox,          \* remote messages: [attachments, labels]; the id is the index
    labels,           \* remote label catalog: sequence of [id, name]
    sent,             \* replies accepted by the remote: sequence of [to, template]
    tempFiles,        \* files of the scratch folder temp_<date>: filename -> content
    ledger,           \* the workbook dados_extraidos_<date>.xlsx: [exists, rows]
    pc,               \* position in process_emails
    emails,           \* result of search_emails
    i,                \* index of email_data in emails
    j,                \* index of attachment in pdf_attachments
    extracted_data,   \* local of process_emails, [bound, cpf, cep]
    type_mail,        \* local of process_emails
    processed_count,  \* local of process_emails
    folder_id,        \* local of process_emails
    summary,          \* the count printed by the last line of process_emails
    runs,             \* invocations of process_emails so far
    faults,           \* collaborator failures so far
    event,            \* history: what the last step did
    edSrc,            \* history: attachment extracted_data was computed from
    rowLog,           \* history: one entry per appended ledger row
    createCalls,      \* history: calls of GmailClient.create_label per folder name
    counted,          \* history: ids of the messages counted in this run
    raised,           \* history: batch positions whose processing raised in this run
    aborted,          \* history: create_label gave no folder id in this run
    attOutcome,       \* history: what the last attachment step did with the file
    text              \* argument of extract_cpf_cep when the function is run alone

remote == << mailbox, labels, sent >>
disk == << tempFiles, ledger >>
locals == << emails, i, j, extracted_data, type_mail, processed_count, folder_id, summary >>
history == << edSrc, rowLog, createCalls, counted, raised, aborted, attOutcome >>
vars == << mailbox, labels, sent, tempFiles, ledger, pc, emails, i, j, extracted_data,
           type_mail, processed_count, folder_id, summary, runs, faults, event, edSrc,
           rowLog, createCalls, counted, raised, aborted, attOutcome, text >>

INBOX == 0            \* the system label INBOX; created labels get ids 1, 2, ...
NoFolder == -1        \* the None that create_label returns on HttpError

NoSrc == [msg |-> 0, att |-> 0, run |-> 0]
NoFile == [exists |-> FALSE, text |-> 0, src |-> NoSrc]
UnboundData == [bound |-> FALSE, cpf |-> None, cep |-> None]

\* the {} that _get_email_details returns on HttpError
EmptyDict == [id |-> 0, attachments |-> << >>]

NoLedger == [exists |-> FALSE, columns |-> << >>, rows |-> << >>]

FolderNames == {<< "inbox", t, CurrentDate >> : t \in {"valid", "rejected"}}

\* the mailboxes of at most n messages with at most a attachments in all,
\* every message in the inbox
RECURSIVE Mailboxes(_, _)
Mailboxes(n, a) ==
    IF n = 0 THEN {<< >>}
    ELSE {<< >>} \cup UNION {
             {<< [attachments |-> atts, labels |-> {INBOX}] >> \o rest :
                  rest \in Mailboxes(n - 1, a - Len(atts))} :
             atts \in SeqsUpTo(Attachments, a)}

Init ==
    /\ mailbox \in Mailboxes(MaxMsgs, MaxAtts)
    /\ labels = << >>
    /\ sent = << >>
    /\ tempFiles = [f \in FileNames |-> NoFile]
    /\ ledger = NoLedger
    /\ pc = "start"
    /\ emails = << >>
    /\ i = 0
    /\ j = 0
    /\ extracted_data = UnboundData
    /\ type_mail = "Unbound"
    /\ processed_count = 0
    /\ folder_id = NoFolder
    /\ summary = -1
    /\ runs = 1
    /\ faults = 0
    /\ event = "init"
    /\ edSrc = NoSrc
    /\ rowLog = << >>
    /\ createCalls = [n \in FolderNames |-> 0]
    /\ counted = {}
    /\ raised = {}
    /\ aborted = FALSE
    /\ attOutcome = "none"
    /\ text = << >>

\* A collaborator call may fail only while the failure budget lasts.
Outcomes == IF faults < MaxFaults THEN {TRUE, FALSE} ELSE {TRUE}
Fault(ok) == IF ok THEN faults ELSE faults + 1

\* ------------------------------------------------------------ GmailClient
\* GmailClient(): _authenticate either builds the service or raises
Authenticate ==
    /\ pc = "start"
    /\ \E ok \in Outcomes :
         /\ faults' = Fault(ok)
         /\ pc' = IF ok THEN "search" ELSE "done"
         /\ event' = IF ok THEN "connected" ELSE "auth_failed"
    /\ UNCHANGED << text, remote, disk, locals, runs, history >>

\* the messages the query in:inbox subject:(...) matches, in mailbox order
InboxIds == SelectSeq([k \in 1..Len(mailbox) |-> k], LAMBDA k : INBOX \in mailbox[k].labels)

\* _get_email_details: the full record, or {} on HttpError
GetEmailDetails(id, ok) ==
    IF ok THEN [id |-> id, attachments |-> mailbox[id].attachments] ELSE EmptyDict

\* search_emails(query, max_results): [] on HttpError of the listing
SearchResult(listOk, detailOk) ==
    IF ~listOk THEN << >>
    ELSE LET ids == SubSeq(InboxIds, 1, IF Len(InboxIds) < MaxResults
                                        THEN Len(InboxIds) ELSE MaxResults)
         IN  [k \in 1..Len(ids) |-> GetEmailDetails(ids[k], detailOk[k])]

\* number of failed calls among the detail fetches
RECURSIVE Failures(_)
Failures(oks) == IF oks = << >> THEN 0
                 ELSE (IF Head(oks) THEN 0 ELSE 1) + Failures(Tail(oks))

\* ---------------------------------------------------------- process_emails
\* as NoEmails, with the check of line 72 missing: the loop runs over the
\* empty list and the summary of line 228 is printed
NoEmailsIgnored(found) == FALSE

\* line 72: if not emails
NoEmails(found) == found = << >>

\* lines 69-79: search, return on an empty result, processed_count = 0
SearchEmails ==
    /\ pc = "search"
    /\ \E listOk \in Outcomes, detailOk \in [1..Len(InboxIds) -> BOOLEAN] :
         LET found == SearchResult(listOk, detailOk)
             failed == IF listOk THEN Failures(detailOk) ELSE 1
         IN  /\ listOk \/ \A k \in DOMAIN detailOk : detailOk[k]
             /\ faults + failed <= MaxFaults
             /\ faults' = faults + failed
             /\ emails' = found
             /\ IF NoEmails(found)
                THEN /\ pc' = "done"
                     /\ event' = "no_emails"
                     /\ UNCHANGED << i, processed_count >>
                ELSE /\ pc' = "msg"
                     /\ event' = "found"
                     /\ i' = 1
                     /\ processed_count' = 0
    /\ UNCHANGED << text, remote, disk, j, extracted_data, type_mail, folder_id, summary,
                    runs, history >>

\* line 81: the loop goes on with the next message
NextEmail ==
    /\ pc' = "msg"
    /\ i' = i + 1

\* as Raise, with no try around the loop body: the exception leaves the function
RaiseUncaught ==
    /\ pc' = "done"
    /\ i' = i
    /\ event' = "exception"
    /\ raised' = raised \cup {i}

\* lines 225-226: an exception raised in the loop body is caught and printed,
\* which ends the iteration for this message
Raise ==
    /\ NextEmail
    /\ event' = "exception"
    /\ raised' = raised \cup {i}

\* lines 91-92
PdfAttachmentsOf(email_data) ==
    SelectSeq(email_data.attachments, LAMBDA att : att.mime_type = PdfMime)

\* as NoPdfTypeMail, with line 180 missing: type_mail keeps its last value
NoPdfTypeMailStale == IF type_mail = "Unbound" THEN "rejected" ELSE type_mail

\* line 180: type_mail of a message without PDF attachment
NoPdfTypeMail == "rejected"

\* lines 83-99 and 178-180: the head of the loop body.  A record without 'id'
\* raises KeyError, caught at line 225.
BeginEmail ==
    /\ pc = "msg"
    /\ i <= Len(emails)
    /\ LET email_data == emails[i]
           pdf_attachments == PdfAttachmentsOf(email_data)
       IN  IF email_data.id = 0
           THEN /\ Raise
                /\ UNCHANGED << j, type_mail >>
           ELSE IF pdf_attachments # << >>
           THEN /\ pc' = "att"
                /\ j' = 1
                /\ event' = "scan"
                /\ UNCHANGED << i, type_mail, raised >>
           ELSE /\ pc' = "count"
                /\ type_mail' = NoPdfTypeMail
                /\ event' = "no_pdf"
                /\ UNCHANGED << i, j, raised >>
    /\ UNCHANGED << text, remote, disk, emails, extracted_data, processed_count, folder_id,
                    summary, runs, faults, edSrc, rowLog, createCalls, counted, aborted,
                    attOutcome >>

\* line 228: the loop is over, the summary is printed
Finish ==
    /\ pc = "msg"
    /\ i > Len(emails)
    /\ pc' = "done"
    /\ summary' = processed_count
    /\ event' = "summary"
    /\ UNCHANGED << text, remote, disk, emails, i, j, extracted_data, type_mail,
                    processed_count, folder_id, runs, faults, history >>

\* ----------------------------------------------------------- ExcelManager
\* line 138
Columns == << "Arquivo", "CPF", "CPF Valido", "CEP", "CEP Valido", "Erro" >>

\* as create_excel, without the os.path.exists check: a new workbook is saved
\* over the file
create_excel_overwrite(file, columns) ==
    [exists |-> TRUE, columns |-> columns, rows |-> << >>]

\* create_excel: a no-op on an existing file, else a workbook with the header
create_excel(file, columns) ==
    IF file.exists THEN file
    ELSE [exists |-> TRUE, columns |-> columns, rows |-> << >>]

\* append_row lines 26-27: FileNotFoundError when the file is absent
AppendRaises(file) == ~file.exists

\* append_row on an existing file: the data goes to row max_row + 1
append_row(file, data_list) == [file EXCEPT !.rows = Append(@, data_list)]

\* ------------------------------------------------------- attachment step
\* download_attachment: writes save_path/filename; an HttpError is printed
\* and swallowed, the file is then not written
download_attachment(files, src, att, ok) ==
    IF ok THEN [files EXCEPT ![att.filename] =
                    [exists |-> TRUE, text |-> att.text, src |-> src]]
    ELSE files

NA == << "N", "/", "A" >>

\* truth value of a str-or-None
Truthy(v) == v # None

\* as Classify, with "or" for "and" at line 147 and the last two branches merged:
\* one field is enough to be valid
ClassifyEither(pdf_attachments, data) ==
    LET cpf_valido == IF Truthy(data.cpf) THEN "Sim" ELSE "Nao"
        cep_valido == IF Truthy(data.cep) THEN "Sim" ELSE "Nao"
    IN  IF ~Truthy(data.cpf) /\ ~Truthy(data.cep)
        THEN [cpf_valido |-> cpf_valido, cep_valido |-> cep_valido,
              erro |-> "CPF e CEP invalidos", type_mail |-> "rejected"]
        ELSE [cpf_valido |-> cpf_valido, cep_valido |-> cep_valido,
              erro |-> "N/A", type_mail |-> "valid"]

\* lines 141-161: flags, error reason and type_mail from extracted_data
Classify(pdf_attachments, data) ==
    IF pdf_attachments # << >>
    THEN LET cpf_valido == IF Truthy(data.cpf) THEN "Sim" ELSE "Nao"
             cep_valido == IF Truthy(data.cep) THEN "Sim" ELSE "Nao"
         IN  IF ~Truthy(data.cpf) /\ ~Truthy(data.cep)
             THEN [cpf_valido |-> cpf_valido, cep_valido |-> cep_valido,
                   erro |-> "CPF e CEP invalidos", type_mail |-> "rejected"]
             ELSE IF ~Truthy(data.cpf)
             THEN [cpf_valido |-> cpf_valido, cep_valido |-> cep_valido,
                   erro |-> "CPF invalido", type_mail |-> "rejected"]
             ELSE IF ~Truthy(data.cep)
             THEN [cpf_valido |-> cpf_valido, cep_valido |-> cep_valido,
                   erro |-> "CEP invalido", type_mail |-> "rejected"]
             ELSE [cpf_valido |-> cpf_valido, cep_valido |-> cep_valido,
                   erro |-> "N/A", type_mail |-> "valid"]
    ELSE [cpf_valido |-> "Unbound", cep_valido |-> "Unbound",
          erro |-> "Nenhum anexo PDF encontrado", type_mail |-> "rejected"]

\* lines 164-171
RowData(filename, data, c) ==
    [Arquivo |-> filename,
     CPF |-> IF Truthy(data.cpf) THEN data.cpf ELSE NA,
     CPFValido |-> c.cpf_valido,
     CEP |-> IF Truthy(data.cep) THEN data.cep ELSE NA,
     CEPValido |-> c.cep_valido,
     Erro |-> c.erro]

\* as AssignExtracted, keeping a field of the earlier attachment where the
\* new text has none
MergeExtracted(old, new) ==
    [bound |-> TRUE,
     cpf |-> IF Truthy(new.cpf) THEN new.cpf ELSE old.cpf,
     cep |-> IF Truthy(new.cep) THEN new.cep ELSE old.cep]

\* line 122: extracted_data = extract_cpf_cep(pdf_text) replaces the earlier value
AssignExtracted(old, new) == new

\* lines 101-177: one iteration of the loop over pdf_attachments.
\* dlOk: the attachment fetch succeeds; rdOk: PDFReader reads the file;
\* apOk: append_row saves the workbook.
ProcessAttachment ==
    /\ pc = "att"
    /\ \E dlOk, rdOk, apOk \in BOOLEAN :
         LET email_data == emails[i]
             pdf_attachments == PdfAttachmentsOf(email_data)
             attachment == pdf_attachments[j]
             filename == attachment.filename
             src == [msg |-> email_data.id, att |-> j, run |-> runs]
             hasId == attachment.attachment_id # NoId
             files == IF hasId THEN download_attachment(tempFiles, src, attachment, dlOk)
                      ELSE tempFiles
             reads == hasId /\ files[filename].exists
             extracted == reads /\ rdOk
             data == IF extracted
                     THEN AssignExtracted(extracted_data,
                              [bound |-> TRUE] @@ ExtractedOf[files[filename].text])
                     ELSE extracted_data
             excel == create_excel(ledger, Columns)
             c == Classify(pdf_attachments, data)
             row_data == RowData(filename, data, c)
             failed == (IF dlOk THEN 0 ELSE 1) + (IF rdOk THEN 0 ELSE 1)
                       + (IF apOk THEN 0 ELSE 1)
         IN  /\ hasId \/ dlOk
             /\ reads \/ rdOk
             /\ data.bound \/ apOk
             /\ faults + failed <= MaxFaults
             /\ faults' = faults + failed
             /\ tempFiles' = files
             /\ extracted_data' = data
             /\ edSrc' = IF extracted THEN files[filename].src ELSE edSrc
             /\ attOutcome' = IF ~hasId THEN "no_id"
                              ELSE IF ~dlOk THEN "download_failed"
                              ELSE IF ~rdOk THEN "read_failed"
                              ELSE "extracted"
             /\ IF ~data.bound
                THEN \* line 143: UnboundLocalError
                     /\ ledger' = excel
                     /\ Raise
                     /\ UNCHANGED << j, type_mail, rowLog >>
                ELSE IF ~apOk \/ AppendRaises(excel)
                THEN \* line 172: append_row raises
                     /\ ledger' = excel
                     /\ type_mail' = c.type_mail
                     /\ Raise
                     /\ UNCHANGED << j, rowLog >>
                ELSE /\ ledger' = append_row(excel, row_data)
                     /\ type_mail' = c.type_mail
                     /\ rowLog' = Append(rowLog, [msg |-> email_data.id, att |-> j,
                                                  run |-> runs, src |-> edSrc'])
                     /\ event' = "logged"
                     /\ UNCHANGED raised
                     /\ IF j < Len(pdf_attachments)
                        THEN /\ j' = j + 1
                             /\ UNCHANGED << pc, i >>
                        ELSE /\ pc' = "count"
                             /\ UNCHANGED << i, j >>
    /\ UNCHANGED << text, remote, emails, processed_count, folder_id, summary, runs,
                    createCalls, counted, aborted >>

\* ------------------------------------------------------ reply and filing
\* the reply template taken from a fixed choice instead of type_mail
TemplateFixed(type) == "valido"

\* lines 183-189
Template(type) == IF type = "valid" THEN "valido" ELSE "invalido"

\* lines 181-201: the message is counted, the template is chosen and read;
\* a missing template file raises, caught at line 225
CountAndReadTemplate ==
    /\ pc = "count"
    /\ processed_count' = processed_count + 1
    /\ counted' = counted \cup {emails[i].id}
    /\ \E tplOk \in Outcomes :
         /\ faults' = Fault(tplOk)
         /\ IF tplOk
            THEN /\ pc' = "send"
                 /\ event' = "counted"
                 /\ UNCHANGED << i, raised >>
            ELSE Raise
    /\ UNCHANGED << text, remote, disk, emails, j, extracted_data, type_mail, folder_id,
                    summary, runs, edSrc, rowLog, createCalls, aborted, attOutcome >>

\* send_email: the reply is accepted by the remote, or an HttpError is printed
\* and None returned
send_email(to, template, is_html, ok) ==
    IF ok THEN Append(sent, [to |-> to, template |-> template, is_html |-> is_html,
                             run |-> runs])
    ELSE sent

\* lines 204-216: the return value of send_email is not looked at
SendReply ==
    /\ pc = "send"
    /\ \E ok \in Outcomes :
         /\ faults' = Fault(ok)
         /\ sent' = send_email(emails[i].id, Template(type_mail), TRUE, ok)
         /\ event' = IF ok THEN "replied" ELSE "reply_failed"
    /\ pc' = "label"
    /\ UNCHANGED << text, mailbox, labels, disk, locals, runs, history >>

\* get_labels: the catalog, or [] on HttpError
get_labels(ok) == IF ok THEN labels ELSE << >>

\* main.create_label lines 46-49: id of the first label with that name, else None
FindLabel(existing_labels, folder_name) ==
    LET hits == {k \in DOMAIN existing_labels : existing_labels[k].name = folder_name}
    IN  IF hits = {} THEN NoFolder
        ELSE existing_labels[CHOOSE k \in hits : \A h \in hits : k <= h].id

\* as FolderFailed, with the check of line 220 missing
FolderFailedIgnored(id) == FALSE

\* line 220: if not folder_id
FolderFailed(id) == id = NoFolder

\* lines 219-222: main.create_label, then the run is aborted on a falsy id
ResolveFolder ==
    /\ pc = "label"
    /\ \E listOk, createOk \in BOOLEAN :
         LET folder_name == << "inbox", type_mail, CurrentDate >>
             found == FindLabel(get_labels(listOk), folder_name)
             creates == found = NoFolder
             new_id == Len(labels) + 1
             failed == (IF listOk THEN 0 ELSE 1) + (IF createOk THEN 0 ELSE 1)
         IN  /\ creates \/ createOk
             /\ faults + failed <= MaxFaults
             /\ faults' = faults + failed
             /\ createCalls' = IF creates
                               THEN [createCalls EXCEPT ![folder_name] = @ + 1]
                               ELSE createCalls
             /\ labels' = IF creates /\ createOk
                          THEN Append(labels, [id |-> new_id, name |-> folder_name])
                          ELSE labels
             /\ folder_id' = IF ~creates THEN found
                             ELSE IF createOk THEN new_id ELSE NoFolder
             /\ aborted' = (aborted \/ folder_id' = NoFolder)
             /\ IF FolderFailed(folder_id')
                THEN /\ pc' = "done"
                     /\ event' = "abort"
                ELSE /\ pc' = "move"
                     /\ event' = "folder"
    /\ UNCHANGED << text, mailbox, sent, disk, emails, i, j, extracted_data, type_mail,
                    processed_count, summary, runs, edSrc, rowLog, counted, raised,
                    attOutcome >>

\* as move_email_to_label, called with remove_inbox=False
move_email_keep_inbox(message_id, label_id, ok) ==
    IF ok THEN [mailbox EXCEPT ![message_id].labels = @ \cup {label_id}]
    ELSE mailbox

\* move_email_to_label: add the label and remove INBOX, or an HttpError is
\* printed and swallowed
move_email_to_label(message_id, label_id, ok) ==
    IF ok THEN [mailbox EXCEPT ![message_id].labels = (@ \cup {label_id}) \ {INBOX}]
    ELSE mailbox

\* line 224, then the next message
MoveEmail ==
    /\ pc = "move"
    /\ \E ok \in Outcomes :
         /\ faults' = Fault(ok)
         /\ mailbox' = move_email_to_label(emails[i].id, folder_id, ok)
         /\ event' = IF ok THEN "filed" ELSE "move_failed"
    /\ NextEmail
    /\ UNCHANGED << text, labels, sent, disk, emails, j, extracted_data, type_mail,
                    processed_count, folder_id, summary, runs, history >>

\* process_emails is invoked again: its locals start unassigned
NewRun ==
    /\ pc = "done"
    /\ runs < MaxRuns
    /\ runs' = runs + 1
    /\ pc' = "start"
    /\ emails' = << >>
    /\ i' = 0
    /\ j' = 0
    /\ extracted_data' = UnboundData
    /\ type_mail' = "Unbound"
    /\ processed_count' = 0
    /\ folder_id' = NoFolder
    /\ summary' = -1
    /\ event' = "init"
    /\ edSrc' = NoSrc
    /\ counted' = {}
    /\ raised' = {}
    /\ aborted' = FALSE
    /\ attOutcome' = "none"
    /\ UNCHANGED << text, remote, disk, faults, rowLog, createCalls >>

Next ==
    \/ Authenticate
    \/ SearchEmails
    \/ BeginEmail
    \/ ProcessAttachment
    \/ CountAndReadTemplate
    \/ SendReply
    \/ ResolveFolder
    \/ MoveEmail
    \/ Finish
    \/ NewRun

Spec == Init /\ [][Next]_vars

\* ------------------------------------------------- ExcelManager on its own
\* any sequence of create_excel and append_row calls on one file
MaxRows == 2

\* the rows process_emails builds at lines 164-171
LedgerRows ==
    {RowData(f, ExtractedOf[t], Classify(<< f >>, ExtractedOf[t])) :
        f \in FileNames, t \in TextIds}

InitLedger ==
    /\ mailbox = << >>
    /\ labels = << >>
    /\ sent = << >>
    /\ tempFiles = [f \in FileNames |-> NoFile]
    /\ ledger = NoLedger
    /\ pc = "excel"
    /\ emails = << >>
    /\ i = 0
    /\ j = 0
    /\ extracted_data = UnboundData
    /\ type_mail = "Unbound"
    /\ processed_count = 0
    /\ folder_id = NoFolder
    /\ summary = -1
    /\ runs = 1
    /\ faults = 0
    /\ event = "init"
    /\ edSrc = NoSrc
    /\ rowLog = << >>
    /\ createCalls = [n \in FolderNames |-> 0]
    /\ counted = {}
    /\ raised = {}
    /\ aborted = FALSE
    /\ attOutcome = "none"
    /\ text = << >>

\* ExcelManager.create_excel(columns)
CreateExcel ==
    /\ pc = "excel"
    /\ \E columns \in {Columns, << >>} :
         ledger' = create_excel(ledger, columns)
    /\ event' = "create_excel"
    /\ UNCHANGED << text, remote, tempFiles, pc, locals, runs, faults, history >>

\* ExcelManager.append_row(data_list)
AppendRow ==
    /\ pc = "excel"
    /\ \E data_list \in LedgerRows :
         IF AppendRaises(ledger)
         THEN /\ event' = "FileNotFoundError"
              /\ ledger' = ledger
         ELSE /\ Len(ledger.rows) < MaxRows
              /\ event' = "append_row"
              /\ ledger' = append_row(ledger, data_list)
    /\ UNCHANGED << text, remote, tempFiles, pc, locals, runs, faults, history >>

NextLedger ==
    \/ CreateExcel
    \/ AppendRow

SpecLedger == InitLedger /\ [][NextLedger]_vars

\* ----------------------------------------------- extract_cpf_cep on its own
\* the function applied to texts made of ID and postal-code occurrences with
\* letters, digits and punctuation around them
MaxPad == 1

IdPunct == << "1", "2", "3", ".", "4", "5", "6", ".", "7", "8", "9", "-", "0", "9" >>
IdBare == << "9", "8", "7", "6", "5", "4", "3", "2", "1", "0", "0" >>
IdHalfPunct == << "1", "1", "1", "2", "2", "2", ".", "3", "3", "3", "-", "4", "4" >>
CepHyphen == << "1", "2", "3", "4", "5", "-", "6", "7", "8" >>
CepBare == << "8", "7", "6", "5", "4", "3", "2", "1" >>
IdItems == {IdPunct, IdBare, IdHalfPunct}
CepItems == {CepHyphen, CepBare}
PadChars == {" ", "a", "7", "."}
Pads == SeqsUpTo(PadChars, MaxPad)

ExtractInputs ==
    {pre \o x \o mid \o y \o post :
        pre \in Pads, mid \in Pads, post \in Pads,
        x \in IdItems \cup CepItems \cup {<< >>},
        y \in IdItems \cup CepItems \cup {<< >>}}

InitExtract ==
    /\ mailbox = << >>
    /\ labels = << >>
    /\ sent = << >>
    /\ tempFiles = [f \in FileNames |-> NoFile]
    /\ ledger = NoLedger
    /\ pc = "extract"
    /\ emails = << >>
    /\ i = 0
    /\ j = 0
    /\ extracted_data = UnboundData
    /\ type_mail = "Unbound"
    /\ processed_count = 0
    /\ folder_id = NoFolder
    /\ summary = -1
    /\ runs = 1
    /\ faults = 0
    /\ event = "init"
    /\ edSrc = NoSrc
    /\ rowLog = << >>
    /\ createCalls = [n \in FolderNames |-> 0]
    /\ counted = {}
    /\ raised = {}
    /\ aborted = FALSE
    /\ attOutcome = "none"
    /\ text \in ExtractInputs

\* extracted_data = extract_cpf_cep(text)
Extract ==
    /\ pc = "extract"
    /\ extracted_data' = [bound |-> TRUE] @@ extract_cpf_cep(text)
    /\ pc' = "extracted"
    /\ event' = "extracted"
    /\ UNCHANGED << text, remote, disk, emails, i, j, type_mail, processed_count,
                    folder_id, summary, runs, faults, history >>

NextExtract == Extract

SpecExtract == InitExtract /\ [][NextExtract]_vars

\* ------------------------------------------------------------ properties
InPipeline == pc \in {"count", "send", "label", "move"}

\* the message has at least one PDF attachment
HasPdf(m) == PdfAttachmentsOf(mailbox[m]) # << >>

\* ledger rows appended for message m in this run
RowsOf(m) == {k \in DOMAIN rowLog : rowLog[k].msg = m /\ rowLog[k].run = runs}

\* replies sent to the sender of message m in this run
RepliesOf(m) == {k \in DOMAIN sent : sent[k].to = m /\ sent[k].run = runs}

\* folders message m is filed in
FoldersOf(m) == mailbox[m].labels \ {INBOX}

Filed(m) == INBOX \notin mailbox[m].labels

FolderNameOf(id) == labels[CHOOSE k \in DOMAIN labels : labels[k].id = id].name

\* C1: at the end of a run every message counted in processed_count has
\* exactly one ledger row of this run and exactly one folder assignment.
C1_OneRowOneFolder ==
    pc = "done" =>
        \A m \in counted : Cardinality(RowsOf(m)) = 1 /\ Cardinality(FoldersOf(m)) = 1

\* C2: a message is classified valid only if extracted_data was extracted
\* from one of its own PDF attachments during this run.
C2_ValidOnlyFromOwnAttachment ==
    (InPipeline /\ type_mail = "valid") =>
        (edSrc.msg = emails[i].id /\ edSrc.run = runs)

\* C3: an attachment step whose download or read fails still appends the
\* ledger row for the message instead of abandoning the message.
C3_AttachmentFailureNonFatal ==
    [][(pc = "att" /\ attOutcome' \in {"download_failed", "read_failed"})
         => event' = "logged"]_vars

\* C4: a message that has left the inbox for its folder has been replied to.
C4_FiledOnlyAfterReplied ==
    \A m \in DOMAIN mailbox : Filed(m) => \E k \in DOMAIN sent : sent[k].to = m

\* C5: at the end of a run every message whose outcome was computed is filed
\* in a folder and out of the inbox.
C5_NeverLeftUnfiled ==
    pc = "done" => \A m \in counted : Filed(m) /\ FoldersOf(m) # {}

\* message m got nothing from this run: no ledger row, no reply, no move
Untouched(m) == RowsOf(m) = {} /\ RepliesOf(m) = {} /\ ~Filed(m)

\* C6: once create_label has given no folder id the run is over: the messages
\* after the failing one get no ledger row, no reply and no move, and the
\* mailbox, the replies and the ledger stay as they were at the failure.
C6_FolderFailureIsFatal ==
    /\ [](aborted => /\ pc = "done"
                      /\ \A k \in (i + 1)..Len(emails) :
                            emails[k].id # 0 => Untouched(emails[k].id))
    /\ [][(aborted /\ aborted')
            => (mailbox' = mailbox /\ sent' = sent /\ ledger' = ledger)]_vars

\* C6 witness: the run was aborted with a message of the batch still to come
C6_Witness ==
    /\ aborted
    /\ i < Len(emails)
    /\ emails[i + 1].id # 0
    /\ HasPdf(emails[i + 1].id)

\* C7: an exception raised while processing a message moves the loop to the
\* next message of the same batch, and a run over a non-empty batch ends only
\* after its last message or by a folder-creation failure.
C7_ExceptionAbortsMessageOnly ==
    /\ [][event' = "exception" => (pc' = "msg" /\ i' = i + 1 /\ emails' = emails)]_vars
    /\ []((pc = "done" /\ emails # << >>) => (aborted \/ i = Len(emails) + 1))

\* C7 witness: the first message raised and a later one was filed
C7_Witness == 1 \in raised /\ event = "filed" /\ i = 3

\* C8: a message without PDF attachment is classified rejected: its reply
\* uses the invalid template and its folder is inbox/rejected/<date>.
C8_NoPdfAlwaysRejected ==
    /\ (InPipeline /\ ~HasPdf(emails[i].id)) => type_mail = "rejected"
    /\ \A k \in DOMAIN sent : ~HasPdf(sent[k].to) => sent[k].template = "invalido"
    /\ \A m \in DOMAIN mailbox :
          ~HasPdf(m) => \A id \in FoldersOf(m) :
                           FolderNameOf(id) = << "inbox", "rejected", CurrentDate >>

\* C8 witness: after a valid reply to an earlier message, a message whose only
\* attachment is not a PDF was answered and filed
C8_Witness ==
    \E m \in DOMAIN mailbox :
        /\ mailbox[m].attachments # << >>
        /\ ~HasPdf(m)
        /\ Filed(m)
        /\ \E k \in DOMAIN sent : sent[k].to = m /\ k > 1 /\ sent[k - 1].template = "valido"

\* C9: a counted message without PDF attachment has a ledger row of this run
\* with both fields absent and the reason "Nenhum anexo PDF encontrado".
C9_NoPdfRowAppended ==
    pc = "done" =>
        \A m \in counted :
            ~HasPdf(m) => \E k \in RowsOf(m) :
                              /\ ledger.rows[k].Erro = "Nenhum anexo PDF encontrado"
                              /\ ledger.rows[k].CPF = NA
                              /\ ledger.rows[k].CEP = NA

\* the reason the claim gives for each combination of present fields
ReasonFor(hasCpf, hasCep) ==
    IF hasCpf /\ hasCep THEN "N/A"
    ELSE IF hasCpf THEN "CEP invalido"
    ELSE IF hasCep THEN "CPF invalido"
    ELSE "CPF e CEP invalidos"

Flag(present) == IF present THEN "Sim" ELSE "Nao"

\* C10: the outcome of a message with PDF attachments is valid iff both
\* fields of the final extracted_data are present; every ledger row has the
\* reason of its combination of present fields and flags equal to presence.
C10_ClassificationFromFields ==
    /\ (InPipeline /\ HasPdf(emails[i].id)) =>
          (type_mail = "valid" <=> (extracted_data.cpf # None /\ extracted_data.cep # None))
    /\ \A k \in DOMAIN ledger.rows :
          LET r == ledger.rows[k] IN
              /\ r.CPFValido = Flag(r.CPF # NA)
              /\ r.CEPValido = Flag(r.CEP # NA)
              /\ r.Erro = ReasonFor(r.CPF # NA, r.CEP # NA)
    /\ event = "logged" =>
          LET r == ledger.rows[Len(ledger.rows)] IN
              /\ r.CPFValido = Flag(extracted_data.cpf # None)
              /\ r.CEPValido = Flag(extracted_data.cep # None)

\* C10 witness: a row with the postal code alone and the reason of a missing
\* ID, then a row with both fields, and the message in the pipeline is valid
C10_Witness ==
    /\ pc = "send"
    /\ type_mail = "valid"
    /\ Len(ledger.rows) = 2
    /\ ledger.rows[1].Erro = "CPF invalido"
    /\ ledger.rows[1].CEPValido = "Sim"
    /\ ledger.rows[2].Erro = "N/A"

\* C11: a message filed in this run has its reply and its folder from one
\* outcome: the reply of this run uses the valid template iff the folder is
\* inbox/valid/<date>, else the invalid template and inbox/rejected/<date>,
\* and that outcome is the one of the last ledger row this run wrote for it.
C11_ReplyAndFolderAgree ==
    event = "filed" =>
        LET m == emails[i - 1].id IN
            \A id \in FoldersOf(m) :
                LET name == FolderNameOf(id) IN
                    /\ name \in FolderNames
                    /\ \A k \in RepliesOf(m) :
                          sent[k].template = (IF name[2] = "valid" THEN "valido"
                                                                   ELSE "invalido")
                    /\ \A k \in RowsOf(m) :
                          (\A n \in RowsOf(m) : n <= k) =>
                              (ledger.rows[k].Erro = "N/A" <=> name[2] = "valid")

\* C11 witness: a message whose first row was valid and whose last row was
\* rejected has just been filed after its reply
C11_Witness ==
    /\ event = "filed"
    /\ LET m == emails[i - 1].id IN
           /\ RepliesOf(m) # {}
           /\ FoldersOf(m) # {}
           /\ \E k, n \in RowsOf(m) :
                  /\ k < n
                  /\ ledger.rows[k].Erro = "N/A"
                  /\ ledger.rows[n].Erro # "N/A"

\* C12: resolving a folder name that is already in the catalog returns the
\* id of the existing folder and makes no creation call, whatever the
\* listing does.
C12_ResolveTwiceSame ==
    [][pc = "label" =>
          LET existing == FindLabel(labels, << "inbox", type_mail, CurrentDate >>)
          IN  existing # NoFolder =>
                  (folder_id' = existing /\ createCalls' = createCalls)]_vars

\* C13: the count reported at the end of a run is the number of messages of
\* the batch with at least one ledger row of this run; a message without a
\* row is not counted.
C13_CountIsMessagesWithRow ==
    summary # -1 =>
        /\ summary = Cardinality({k \in DOMAIN emails :
                                     emails[k].id # 0 /\ RowsOf(emails[k].id) # {}})
        /\ \A m \in counted : RowsOf(m) # {}

\* C14: a run whose search returns no message ends at the search with
\* nothing changed: no ledger row, no ledger file, no reply, no folder, no
\* move, no count reported; a second run that finds the inbox empty leaves
\* the ledger as the first run left it.
C14_EmptySearchIsNoOp ==
    /\ [][pc = "start"
            => UNCHANGED << mailbox, labels, sent, ledger, tempFiles, rowLog,
                            createCalls, processed_count, summary >>]_vars
    /\ [][(pc = "search" /\ emails' = << >>)
            => /\ pc' = "done"
               /\ UNCHANGED << mailbox, labels, sent, ledger, tempFiles, rowLog,
                               createCalls, processed_count, summary >>]_vars
    /\ [][event = "no_emails" => UNCHANGED << mailbox, labels, sent, ledger >>]_vars
    /\ [](event = "no_emails" =>
             /\ pc = "done"
             /\ summary = -1
             /\ counted = {}
             /\ \A k \in DOMAIN rowLog : rowLog[k].run # runs
             /\ \A k \in DOMAIN sent : sent[k].run # runs)

\* C14 witness: the first run logged and filed every message, the second run
\* searched without failure and found nothing
C14_Witness ==
    /\ runs = 2
    /\ event = "no_emails"
    /\ faults = 0
    /\ mailbox # << >>
    /\ \A m \in DOMAIN mailbox : Filed(m)
    /\ ledger.exists
    /\ ledger.rows # << >>

\* every PDF attachment of message m was downloaded and read in this run, and
\* each got its row
AllExtracted(m) ==
    /\ Cardinality(RowsOf(m)) = Len(PdfAttachmentsOf(mailbox[m]))
    /\ \A k \in RowsOf(m) :
          rowLog[k].src = [msg |-> m, att |-> rowLog[k].att, run |-> runs]

\* the outcome of the fields of one extracted text
OutcomeOf(fields) ==
    IF fields.cpf # None /\ fields.cep # None THEN "valid" ELSE "rejected"

\* C15: when every PDF attachment of a message was downloaded and read, the
\* outcome, the last row, the reply and the folder come from the fields of
\* the last PDF attachment alone, with nothing kept from the earlier ones.
C15_LastAttachmentWins ==
    \A m \in DOMAIN mailbox :
        (HasPdf(m) /\ AllExtracted(m)) =>
            LET pdfs == PdfAttachmentsOf(mailbox[m])
                fields == ExtractedOf[pdfs[Len(pdfs)].text]
                last == CHOOSE k \in RowsOf(m) : \A n \in RowsOf(m) : n <= k
            IN  /\ ledger.rows[last].CPF = (IF fields.cpf # None THEN fields.cpf ELSE NA)
                /\ ledger.rows[last].CEP = (IF fields.cep # None THEN fields.cep ELSE NA)
                /\ ledger.rows[last].Erro = ReasonFor(fields.cpf # None, fields.cep # None)
                /\ (InPipeline /\ emails[i].id = m) => type_mail = OutcomeOf(fields)
                /\ \A k \in RepliesOf(m) :
                      sent[k].template = (IF OutcomeOf(fields) = "valid"
                                          THEN "valido" ELSE "invalido")
                /\ \A id \in FoldersOf(m) :
                      FolderNameOf(id) = << "inbox", OutcomeOf(fields), CurrentDate >>

\* C15 witness: the first PDF has the ID alone, the last the postal code
\* alone; the message was rejected for the missing ID, answered and filed
C15_Witness ==
    \E m \in DOMAIN mailbox :
        LET pdfs == PdfAttachmentsOf(mailbox[m]) IN
            /\ Len(pdfs) = 2
            /\ ExtractedOf[pdfs[1].text].cpf # None
            /\ ExtractedOf[pdfs[1].text].cep = None
            /\ ExtractedOf[pdfs[2].text].cpf = None
            /\ ExtractedOf[pdfs[2].text].cep # None
            /\ AllExtracted(m)
            /\ RepliesOf(m) # {}
            /\ Filed(m)
            /\ ledger.rows[Len(ledger.rows)].Erro = "CPF invalido"

\* a first run that ended with its summary and without any failed call, over
\* a mailbox of one message with one PDF attachment that can be fetched
SingleMessageRun ==
    /\ runs = 1
    /\ faults = 0
    /\ event = "summary"
    /\ Len(mailbox) = 1
    /\ Len(PdfAttachmentsOf(mailbox[1])) = 1
    /\ PdfAttachmentsOf(mailbox[1])[1].attachment_id # NoId

\* C16: a run over one message with one PDF attachment, downloaded and read,
\* leaves one ledger row, one HTML reply and the message moved to one folder;
\* with both fields in the text the flags are "Sim", the template the valid
\* one and the folder inbox/valid/<date>; with neither field the flags are
\* "Nao", the error "CPF e CEP invalidos", the template the invalid one and
\* the folder inbox/rejected/<date>.
C16_EndToEnd ==
    SingleMessageRun =>
        LET pdf == PdfAttachmentsOf(mailbox[1])[1]
            fields == ExtractedOf[pdf.text]
        IN  /\ summary = 1
            /\ Len(ledger.rows) = 1
            /\ ledger.rows[1].Arquivo = pdf.filename
            /\ Len(sent) = 1
            /\ sent[1].to = 1
            /\ sent[1].is_html
            /\ Filed(1)
            /\ Cardinality(FoldersOf(1)) = 1
            /\ (fields.cpf # None /\ fields.cep # None) =>
                  /\ ledger.rows[1].CPFValido = "Sim"
                  /\ ledger.rows[1].CEPValido = "Sim"
                  /\ sent[1].template = "valido"
                  /\ \A id \in FoldersOf(1) :
                        FolderNameOf(id) = << "inbox", "valid", CurrentDate >>
            /\ (fields.cpf = None /\ fields.cep = None) =>
                  /\ ledger.rows[1].CPFValido = "Nao"
                  /\ ledger.rows[1].CEPValido = "Nao"
                  /\ ledger.rows[1].Erro = "CPF e CEP invalidos"
                  /\ sent[1].template = "invalido"
                  /\ \A id \in FoldersOf(1) :
                        FolderNameOf(id) = << "inbox", "rejected", CurrentDate >>

\* C16 witness: the run over a PDF with both fields has ended
C16_Witness ==
    /\ SingleMessageRun
    /\ ledger.rows # << >>
    /\ ledger.rows[1].CPF # NA
    /\ ledger.rows[1].CEP # NA
    /\ sent # << >>
    /\ Filed(1)

\* C17: over any sequence of create_excel and append_row calls the rows in
\* the file stay a prefix of the later rows and the header stays; create_excel
\* on an existing file changes nothing; a successful append_row adds one row
\* after the last; append_row on an absent file raises and creates no file.
C17_LedgerAppendOnly ==
    [][/\ Len(ledger'.rows) >= Len(ledger.rows)
       /\ SubSeq(ledger'.rows, 1, Len(ledger.rows)) = ledger.rows
       /\ ledger.exists => (ledger'.exists /\ ledger'.columns = ledger.columns)
       /\ event' = "create_excel" =>
             /\ ledger'.exists
             /\ ledger'.rows = ledger.rows
             /\ ledger.exists => ledger' = ledger
       /\ event' = "append_row" =>
             /\ ledger.exists
             /\ Len(ledger'.rows) = Len(ledger.rows) + 1
             /\ ledger'.rows[Len(ledger'.rows)] \in LedgerRows
       /\ event' = "FileNotFoundError" => (~ledger.exists /\ ledger' = ledger)
       /\ ~ledger.exists => event' # "append_row"]_vars

\* C17 witness: create_excel was called on a file that holds two rows
C17_Witness ==
    /\ pc = "excel"
    /\ event = "create_excel"
    /\ Len(ledger.rows) = 2
    /\ ledger.rows[1] # ledger.rows[2]

\* the shapes of the two fields, "d" standing for a digit: three groups of
\* three digits with an optional dot after the first and after the second,
\* an optional hyphen and two digits; five digits, an optional hyphen and
\* three digits
Opt(present, c) == IF present THEN << c >> ELSE << >>
D3 == << "d", "d", "d" >>
CpfShapes ==
    {D3 \o Opt(a, ".") \o D3 \o Opt(b, ".") \o D3 \o Opt(c, "-") \o << "d", "d" >> :
        a \in BOOLEAN, b \in BOOLEAN, c \in BOOLEAN}
CepShapes == {<< "d", "d" >> \o D3 \o Opt(c, "-") \o D3 : c \in BOOLEAN}

HasShape(s, shape) ==
    /\ Len(s) = Len(shape)
    /\ \A k \in DOMAIN shape :
          IF shape[k] = "d" THEN s[k] \in Digits ELSE s[k] = shape[k]

\* text[a..b] is not directly preceded or followed by a letter, a digit or
\* an underscore
Delimited(s, a, b) ==
    /\ a = 1 \/ s[a - 1] \notin Digits \cup Letters
    /\ b = Len(s) \/ s[b + 1] \notin Digits \cup Letters

\* the substrings of s with one of the shapes, as pairs of positions
Occurrences(shapes, s, delimited) ==
    {o \in {<< a, a + Len(shape) - 1 >> : a \in 1..Len(s), shape \in shapes} :
        /\ o[2] <= Len(s)
        /\ \E shape \in shapes : HasShape(SubSeq(s, o[1], o[2]), shape)
        /\ delimited => Delimited(s, o[1], o[2])}

\* the leftmost occurrence, or None
FirstOccurrence(shapes, s, delimited) ==
    LET occ == Occurrences(shapes, s, delimited)
    IN  IF occ = {} THEN None
        ELSE LET o == CHOOSE o \in occ : \A q \in occ : o[1] <= q[1]
             IN  SubSeq(s, o[1], o[2])

\* the text is an ID and a postal code, in either order, with arbitrary
\* characters before, between and after them
HasIdAndCep(s) ==
    \E pre \in Pads, mid \in Pads, post \in Pads, x \in IdItems, y \in CepItems :
        s = pre \o x \o mid \o y \o post \/ s = pre \o y \o mid \o x \o post

\* C18 as stated: on a text that holds an ID and a postal code, whatever the
\* characters around them, both fields are present and each is the first
\* substring of its shape; on a text with no substring of either shape both
\* are absent.
C18_ExtractsWhateverSurrounds ==
    pc = "extracted" =>
        /\ HasIdAndCep(text) =>
              /\ extracted_data.cpf # None
              /\ extracted_data.cep # None
              /\ extracted_data.cpf = FirstOccurrence(CpfShapes, text, FALSE)
              /\ extracted_data.cep = FirstOccurrence(CepShapes, text, FALSE)
        /\ (/\ Occurrences(CpfShapes, text, FALSE) = {}
            /\ Occurrences(CepShapes, text, FALSE) = {}) =>
              (extracted_data.cpf = None /\ extracted_data.cep = None)

\* C18 amended: each field is the first substring of its shape that is
\* delimited by word boundaries, and is absent exactly when the text has no
\* such substring; a text with a delimited ID and a delimited postal code
\* gives both, a text with neither gives none.
C18_ExtractsFirstDelimited ==
    pc = "extracted" =>
        /\ extracted_data.bound
        /\ extracted_data.cpf = FirstOccurrence(CpfShapes, text, TRUE)
        /\ extracted_data.cep = FirstOccurrence(CepShapes, text, TRUE)

\* C18 witness: a bare ID, a space and a punctuated ID followed by a letter:
\* the first delimited ID was returned, and no postal code
C18_Witness ==
    /\ pc = "extracted"
    /\ text = IdBare \o << " " >> \o IdPunct \o << "a" >>
    /\ extracted_data.cpf = IdBare
    /\ extracted_data.cep = None

\* C19: the values of every ledger row were extracted from the attachment the
\* row names, fetched and read in the step that wrote the row.
C19_RowFromOwnAttachment ==
    \A k \in DOMAIN rowLog :
        rowLog[k].src = [msg |-> rowLog[k].msg, att |-> rowLog[k].att,
                         run |-> rowLog[k].run]

\* C20: over all runs a message gets at most one reply, and a message that
\* was replied to is out of the inbox when its run ends.
C20_AtMostOneReply ==
    /\ \A m \in DOMAIN mailbox :
          Cardinality({k \in DOMAIN sent : sent[k].to = m}) <= 1
    /\ pc = "done" => \A k \in DOMAIN sent : Filed(sent[k].to)

====
